---- MODULE Spec2Model ----
(***************************************************************************)
(* Model of src/app.py: a Flask application keeping three process-wide     *)
(* globals (conversation_buffer, latest_essay, uploaded_document) that are *)
(* read and written by the handlers index, remove_file and download_essay. *)
(*                                                                         *)
(* Text is a sequence of tokens (one-character strings, or one string for  *)
(* a fixed fragment such as a prompt prefix); "" of Python is << >>.       *)
(* Two specifications share the globals:                                   *)
(*   Spec     - requests handled one after the other, a handler per step;  *)
(*   ConcSpec - two handler threads interleaved statement by statement.    *)
(***************************************************************************)
EXTENDS Integers, Sequences, FiniteSets, TLC

VARIABLES
    conversation_buffer,  \* deque(maxlen=5) of [role, content]
    latest_essay,         \* latest_essay["markdown"]
    uploaded_document,    \* [content, filename]
    request,              \* the request handled last (Spec)
    response,             \* what the handler returned for it (Spec)
    api_messages,         \* messages of the last completion call (Spec)
    gens,                 \* history: generations since the last clear, capped
    last_returned,        \* history: raw text of the last successful completion
    pc,                   \* ConcSpec: statement each thread is at
    loc,                  \* ConcSpec: locals of each thread
    started,              \* ConcSpec: requests accepted so far
    removed,              \* history: a removal completed, no supported upload since
    buffer_stale          \* history: per buffer entry, exchange began before the removal

globals == <<conversation_buffer, latest_essay, uploaded_document>>
seqvars == <<request, response, api_messages, gens, last_returned>>
concvars == <<pc, loc, started, removed, buffer_stale>>
vars == <<conversation_buffer, latest_essay, uploaded_document, request, response,
          api_messages, gens, last_returned, pc, loc, started, removed, buffer_stale>>

----------------------------------------------------------------------------
(* Bounds and constants *)

maxlen == 5

MaxGens == 3

MaxRequests == 3

\* Python None, as a text no input can equal (one reserved token)
None == <<"<None>">>

----------------------------------------------------------------------------
(* Text helpers *)

IsSpace(c) == c \in {" ", "\n", "\n\n"}

RECURSIVE LStrip(_)
LStrip(s) == IF s # << >> /\ IsSpace(Head(s)) THEN LStrip(Tail(s)) ELSE s

RECURSIVE RStrip(_)
RStrip(s) ==
    IF s # << >> /\ IsSpace(s[Len(s)]) THEN RStrip(SubSeq(s, 1, Len(s) - 1)) ELSE s

\* variant: trailing white space kept
StripLeftOnly(s) == LStrip(s)

\* str.strip()
Strip(s) == RStrip(LStrip(s))

LowerChar(c) ==
    CASE c = "P" -> "p" [] c = "D" -> "d" [] c = "F" -> "f" [] c = "O" -> "o"
      [] c = "C" -> "c" [] c = "X" -> "x" [] c = "B" -> "b" [] c = "A" -> "a"
      [] OTHER -> c

\* str.lower()
Lower(s) == [i \in 1..Len(s) |-> LowerChar(s[i])]

\* str.endswith(suffix)
EndsWith(s, suffix) ==
    /\ Len(s) >= Len(suffix)
    /\ SubSeq(s, Len(s) - Len(suffix) + 1, Len(s)) = suffix

\* sep.join(parts)
RECURSIVE Join(_, _)
Join(parts, sep) ==
    IF parts = << >> THEN << >>
    ELSE IF Len(parts) = 1 THEN parts[1]
    ELSE parts[1] \o sep \o Join(Tail(parts), sep)

\* [x for x in s if keep(x)]
RECURSIVE SelectNonBlank(_)
SelectNonBlank(s) ==
    IF s = << >> THEN << >>
    ELSE IF Strip(Head(s)) # << >> THEN <<Head(s)>> \o SelectNonBlank(Tail(s))
    ELSE SelectNonBlank(Tail(s))

\* Python truthiness of a str-or-None value
Truthy(v) == v # None /\ v # << >>

----------------------------------------------------------------------------
(* Inputs: what a browser can post and what the completion API can return *)

NoFile == [filename |-> << >>, bytes |-> [kind |-> "none", pages |-> << >>, paragraphs |-> << >>]]

\* a one-page PDF: native text "A " and one image whose OCR text is "o"
FilePdf ==
    [filename |-> <<"a", ".", "p", "d", "f">>,
     bytes |-> [kind |-> "pdf",
                pages |-> << [text |-> <<"A", " ">>, images |-> << <<"o">> >>] >>,
                paragraphs |-> << >>]]

\* an upper-case .DOCX with a blank paragraph between two others
FileDocx ==
    [filename |-> <<"B", ".", "D", "O", "C", "X">>,
     bytes |-> [kind |-> "docx", pages |-> << >>,
                paragraphs |-> << <<"B">>, <<" ">>, <<"c">> >>]]

\* a PDF with one blank page and no image: extraction gives ""
FileBlankPdf ==
    [filename |-> <<"e", ".", "p", "d", "f">>,
     bytes |-> [kind |-> "pdf",
                pages |-> << [text |-> <<" ">>, images |-> << >>] >>,
                paragraphs |-> << >>]]

\* an unsupported extension
FileTxt ==
    [filename |-> <<"n", ".", "t", "x", "t">>,
     bytes |-> [kind |-> "text", pages |-> << >>, paragraphs |-> << >>]]

\* a .pdf name on bytes that are no PDF: fitz.open raises
FileBadPdf ==
    [filename |-> <<"z", ".", "p", "d", "f">>,
     bytes |-> [kind |-> "text", pages |-> << >>, paragraphs |-> << >>]]

Files == {FilePdf, FileDocx, FileBlankPdf, FileTxt, FileBadPdf}

Topics == { <<"x">>, <<"y">> }

\* a raw HTML table without rows, which Markdown passes through unchanged
EmptyTable == "<table></table>"

\* message.content of a successful completion, before .strip()
RawEssays == { <<" ">>, <<" ", "a", "\n">>, <<EmptyTable>> }

ApiError == <<"<raise>">>

ApiOutcomes == RawEssays \cup {ApiError}

----------------------------------------------------------------------------
(* Document Ingestor *)

\* one page of the loop of extract_pdf_content: text first, then images
PageFragments(page) ==
    (IF Strip(page.text) # << >> THEN << Strip(page.text) >> ELSE << >>)
        \o SelectNonBlank(page.images)

RECURSIVE AllFragments(_)
AllFragments(pages) ==
    IF pages = << >> THEN << >>
    ELSE PageFragments(Head(pages)) \o AllFragments(Tail(pages))

extract_pdf_content(pdf_bytes) == Join(AllFragments(pdf_bytes.pages), <<"\n\n">>)

extract_docx_content(file_bytes) == Join(SelectNonBlank(file_bytes.paragraphs), <<"\n">>)

IsPdfName(filename) == EndsWith(Lower(filename), <<".", "p", "d", "f">>)

IsDocxName(filename) == EndsWith(Lower(filename), <<".", "d", "o", "c", "x">>)

\* `if file and file.filename`
HasFile(file) == file.filename # << >>

\* the parsing library rejects the bytes (fitz.open / docx.Document raise)
ExtractRaises(file) ==
    \/ IsPdfName(file.filename) /\ file.bytes.kind # "pdf"
    \/ ~IsPdfName(file.filename) /\ IsDocxName(file.filename) /\ file.bytes.kind # "docx"

\* document_content of index() after the extension dispatch
DocumentContent(file) ==
    IF IsPdfName(file.filename) THEN extract_pdf_content(file.bytes)
    ELSE IF IsDocxName(file.filename) THEN extract_docx_content(file.bytes)
    ELSE None

\* variant: lines 166-167 inside the extension branches
UploadKeepsOnUnsupported(doc, file) ==
    IF DocumentContent(file) = None THEN doc
    ELSE [content |-> DocumentContent(file), filename |-> file.filename]

\* uploaded_document after the upload block of index()
Upload(doc, file) ==
    IF HasFile(file)
    THEN [content |-> DocumentContent(file), filename |-> file.filename]
    ELSE doc

----------------------------------------------------------------------------
(* Essay Generator *)

Msg(role, content) == [role |-> role, content |-> content]

system_message == Msg("system", <<"You are an AI essay writer. ...">>)

DocMessage(document_content) == Msg("user", <<"[DOCUMENT CONTENT]\n">> \o document_content)

EssayOnMessage(topic) == Msg("user", <<"Write an essay on: ">> \o topic)

\* variant: the bare topic as last message even with a document
BuildMessagesBareTopic(buffer, topic, document_content) ==
    <<system_message>> \o buffer \o
        (IF Truthy(document_content)
         THEN <<DocMessage(document_content), Msg("user", topic)>>
         ELSE <<Msg("user", topic)>>)

\* the message list generate_essay builds before the completion call
BuildMessages(buffer, topic, document_content) ==
    <<system_message>> \o buffer \o
        (IF Truthy(document_content)
         THEN <<DocMessage(document_content), EssayOnMessage(topic)>>
         ELSE <<Msg("user", topic)>>)

\* variant: a deque without maxlen
DequeAppendUnbounded(d, x) == Append(d, x)

\* deque(maxlen=5).append
DequeAppend(d, x) == IF Len(d) < maxlen THEN Append(d, x) ELSE Append(Tail(d), x)

\* the two appends that end generate_essay
AppendExchange(buffer, topic, essay) ==
    DequeAppend(DequeAppend(buffer, Msg("user", topic)), Msg("assistant", essay))

\* generate_essay(topic) is called without the document when the stored content is falsy
GenerateArg(doc) == IF Truthy(doc.content) THEN doc.content ELSE None

----------------------------------------------------------------------------
(* Markdown-to-Document Converter *)

\* rows[0] of a table without rows raises IndexError
MarkdownToDocxRaises(md_text) == \E i \in 1..Len(md_text) : md_text[i] = EmptyTable

----------------------------------------------------------------------------
(* Requests and responses *)

Threads == {"t1", "t2"}

Request(route, topic, file, api) ==
    [route |-> route, topic |-> topic, file |-> file, api |-> api]

Response(kind, topic, markdown_text, pdf_filename, text) ==
    [kind |-> kind, topic |-> topic, markdown_text |-> markdown_text,
     pdf_filename |-> pdf_filename, text |-> text]

\* render_template("AIbot.html", topic, markdown_text, pdf_filename)
Page(topic, markdown_text, pdf_filename) ==
    Response("page", topic, markdown_text, pdf_filename, << >>)

\* an exception nobody catches: the framework answers with a server error
ServerError == Response("error", << >>, << >>, None, << >>)

Redirect == Response("redirect", << >>, << >>, None, <<"/">>)

Notice ==
    Response("notice", << >>, << >>, None, <<"No essay available. Generate one first.">>)

Attachment(md_text) == Response("attachment", << >>, md_text, None, <<"essay.docx">>)

IdleLocals ==
    [route |-> "none", topic |-> << >>, file |-> NoFile, document_content |-> None,
     arg |-> None, messages |-> << >>, essay |-> << >>,
     pre |-> FALSE, hist_stale |-> FALSE, sent_removed |-> FALSE]

Init ==
    /\ conversation_buffer = << >>
    /\ latest_essay = << >>
    /\ uploaded_document = [content |-> None, filename |-> None]
    /\ request = Request("none", << >>, NoFile, None)
    /\ response = Page(<< >>, << >>, None)
    /\ api_messages = << >>
    /\ gens = 0
    /\ last_returned = None
    /\ pc = [t \in Threads |-> "idle"]
    /\ loc = [t \in Threads |-> IdleLocals]
    /\ started = 0
    /\ removed = FALSE
    /\ buffer_stale = << >>

----------------------------------------------------------------------------
(* Spec: one handler per step *)

\* GET /
index_get ==
    /\ request' = Request("GET /", << >>, NoFile, None)
    /\ response' = Page(<< >>, << >>, uploaded_document.filename)
    /\ UNCHANGED <<globals, api_messages, gens, last_returned, concvars>>

\* POST / whose upload cannot be parsed: the exception leaves index() before line 166
index_post_extract_fails(topic, file) ==
    /\ HasFile(file) /\ ExtractRaises(file)
    /\ request' = Request("POST /", topic, file, None)
    /\ response' = ServerError
    /\ UNCHANGED <<globals, api_messages, gens, last_returned, concvars>>

\* variant: the user entry appended before the completion call
index_post_api_fails_user_appended(topic, file) ==
    /\ ~(HasFile(file) /\ ExtractRaises(file))
    /\ uploaded_document' = Upload(uploaded_document, file)
    /\ api_messages' = BuildMessages(conversation_buffer, topic,
                                     GenerateArg(uploaded_document'))
    /\ conversation_buffer' = DequeAppend(conversation_buffer, Msg("user", topic))
    /\ request' = Request("POST /", topic, file, ApiError)
    /\ response' = ServerError
    /\ UNCHANGED <<latest_essay, gens, last_returned, concvars>>

\* POST / whose completion call raises: the upload block has run, nothing after the call has
index_post_api_fails(topic, file) ==
    /\ ~(HasFile(file) /\ ExtractRaises(file))
    /\ uploaded_document' = Upload(uploaded_document, file)
    /\ api_messages' = BuildMessages(conversation_buffer, topic,
                                     GenerateArg(uploaded_document'))
    /\ request' = Request("POST /", topic, file, ApiError)
    /\ response' = ServerError
    /\ UNCHANGED <<conversation_buffer, latest_essay, gens, last_returned, concvars>>

\* POST / that runs to the end
index_post_ok(topic, file, raw) ==
    /\ ~(HasFile(file) /\ ExtractRaises(file))
    /\ uploaded_document' = Upload(uploaded_document, file)
    /\ api_messages' = BuildMessages(conversation_buffer, topic,
                                     GenerateArg(uploaded_document'))
    /\ conversation_buffer' = AppendExchange(conversation_buffer, topic, Strip(raw))
    /\ latest_essay' = Strip(raw)
    /\ request' = Request("POST /", topic, file, raw)
    /\ response' = Page(topic, Strip(raw), uploaded_document'.filename)
    /\ gens' = IF gens < MaxGens THEN gens + 1 ELSE gens
    /\ last_returned' = raw
    /\ UNCHANGED concvars

index_post ==
    \E topic \in Topics, file \in Files \cup {NoFile} :
        \/ index_post_extract_fails(topic, file)
        \/ index_post_api_fails(topic, file)
        \/ \E raw \in RawEssays : index_post_ok(topic, file, raw)

\* POST /remove_file
remove_file ==
    /\ uploaded_document' = [content |-> None, filename |-> None]
    /\ conversation_buffer' = << >>
    /\ request' = Request("POST /remove_file", << >>, NoFile, None)
    /\ response' = Redirect
    /\ gens' = 0
    /\ UNCHANGED <<latest_essay, api_messages, last_returned, concvars>>

DownloadResponse(md_text) ==
    IF md_text = << >> THEN Notice
    ELSE IF MarkdownToDocxRaises(md_text) THEN ServerError
    ELSE Attachment(md_text)

\* GET /download
download_essay ==
    /\ request' = Request("GET /download", << >>, NoFile, None)
    /\ response' = DownloadResponse(latest_essay)
    /\ UNCHANGED <<globals, api_messages, gens, last_returned, concvars>>

Next == index_get \/ index_post \/ remove_file \/ download_essay

Spec == Init /\ [][Next]_vars

----------------------------------------------------------------------------
(* ConcSpec: two handler threads, one statement of app.py per step.        *)
(* download_essay and GET / only read one global and are left out.         *)

ConcFiles == {NoFile, FilePdf, FileDocx}

ConcRaw == { <<" ", "a", "\n">> }

SetPc(t, label) == pc' = [pc EXCEPT ![t] = label]

\* the history part of a built message list is not empty
HasHistory(l) == Len(l.messages) > (IF Truthy(l.arg) THEN 3 ELSE 2)

\* index() up to line 164: form fields read, upload parsed into the local document_content
c_begin_post(t, topic, file) ==
    /\ pc[t] = "idle"
    /\ started < MaxRequests
    /\ started' = started + 1
    /\ IF HasFile(file) /\ ExtractRaises(file)
       THEN UNCHANGED <<pc, loc>>
       ELSE /\ loc' = [loc EXCEPT ![t] =
                         [IdleLocals EXCEPT !.route = "POST /", !.topic = topic,
                                            !.file = file,
                                            !.document_content =
                                                IF HasFile(file) THEN DocumentContent(file)
                                                ELSE None]]
            /\ SetPc(t, IF HasFile(file) THEN "l166" ELSE "l170")
    /\ UNCHANGED <<globals, seqvars, removed, buffer_stale>>

\* line 166: uploaded_document["content"] = document_content
c_l166(t) ==
    /\ pc[t] = "l166"
    /\ uploaded_document' = [uploaded_document EXCEPT !.content = loc[t].document_content]
    /\ removed' = IF loc[t].document_content # None THEN FALSE ELSE removed
    /\ SetPc(t, "l167")
    /\ UNCHANGED <<conversation_buffer, latest_essay, seqvars, loc, started, buffer_stale>>

\* line 167: uploaded_document["filename"] = file.filename
c_l167(t) ==
    /\ pc[t] = "l167"
    /\ uploaded_document' = [uploaded_document EXCEPT !.filename = loc[t].file.filename]
    /\ SetPc(t, "l170")
    /\ UNCHANGED <<conversation_buffer, latest_essay, seqvars, loc, started, removed,
                   buffer_stale>>

\* line 170: if uploaded_document["content"]
c_l170(t) ==
    /\ pc[t] = "l170"
    /\ SetPc(t, IF Truthy(uploaded_document.content) THEN "l171" ELSE "l89")
    /\ UNCHANGED <<globals, seqvars, loc, started, removed, buffer_stale>>

\* variant: the argument is the request's own document_content
c_l171_own_upload(t) ==
    /\ pc[t] = "l171"
    /\ loc' = [loc EXCEPT ![t].arg = loc[t].document_content]
    /\ SetPc(t, "l89")
    /\ UNCHANGED <<globals, seqvars, started, removed, buffer_stale>>

\* line 171: the argument of generate_essay is read from the global again
c_l171(t) ==
    /\ pc[t] = "l171"
    /\ loc' = [loc EXCEPT ![t].arg = uploaded_document.content]
    /\ SetPc(t, "l89")
    /\ UNCHANGED <<globals, seqvars, started, removed, buffer_stale>>

\* lines 89-96: the message list is built from the buffer as it stands
c_l89(t) ==
    /\ pc[t] = "l89"
    /\ loc' = [loc EXCEPT ![t].messages =
                              BuildMessages(conversation_buffer, loc[t].topic, loc[t].arg),
                          ![t].hist_stale = \E i \in 1..Len(buffer_stale) : buffer_stale[i]]
    /\ SetPc(t, "l98")
    /\ UNCHANGED <<globals, seqvars, started, removed, buffer_stale>>

\* line 98: the completion request leaves
c_l98_send(t) ==
    /\ pc[t] = "l98"
    /\ loc' = [loc EXCEPT ![t].sent_removed = removed]
    /\ SetPc(t, "l98w")
    /\ UNCHANGED <<globals, seqvars, started, removed, buffer_stale>>

\* lines 98-105: the completion call returns or raises
c_l98_return(t, api) ==
    /\ pc[t] = "l98w"
    /\ IF api = ApiError
       THEN /\ loc' = [loc EXCEPT ![t] = IdleLocals]
            /\ SetPc(t, "idle")
       ELSE /\ loc' = [loc EXCEPT ![t].essay = Strip(api)]
            /\ SetPc(t, "l107")
    /\ UNCHANGED <<globals, seqvars, started, removed, buffer_stale>>

\* line 107: conversation_buffer.append(user)
c_l107(t) ==
    /\ pc[t] = "l107"
    /\ conversation_buffer' = DequeAppend(conversation_buffer, Msg("user", loc[t].topic))
    /\ buffer_stale' = DequeAppend(buffer_stale, loc[t].pre)
    /\ SetPc(t, "l108")
    /\ UNCHANGED <<latest_essay, uploaded_document, seqvars, loc, started, removed>>

\* line 108: conversation_buffer.append(assistant)
c_l108(t) ==
    /\ pc[t] = "l108"
    /\ conversation_buffer' =
           DequeAppend(conversation_buffer, Msg("assistant", loc[t].essay))
    /\ buffer_stale' = DequeAppend(buffer_stale, loc[t].pre)
    /\ SetPc(t, "l175")
    /\ UNCHANGED <<latest_essay, uploaded_document, seqvars, loc, started, removed>>

\* line 175, then the render, which only reads
c_l175(t) ==
    /\ pc[t] = "l175"
    /\ latest_essay' = loc[t].essay
    /\ loc' = [loc EXCEPT ![t] = IdleLocals]
    /\ SetPc(t, "idle")
    /\ UNCHANGED <<conversation_buffer, uploaded_document, seqvars, started, removed,
                   buffer_stale>>

c_begin_remove(t) ==
    /\ pc[t] = "idle"
    /\ started < MaxRequests
    /\ started' = started + 1
    /\ loc' = [loc EXCEPT ![t] = [IdleLocals EXCEPT !.route = "POST /remove_file"]]
    /\ SetPc(t, "r190")
    /\ UNCHANGED <<globals, seqvars, removed, buffer_stale>>

\* line 190
c_r190(t) ==
    /\ pc[t] = "r190"
    /\ uploaded_document' = [uploaded_document EXCEPT !.content = None]
    /\ SetPc(t, "r191")
    /\ UNCHANGED <<conversation_buffer, latest_essay, seqvars, loc, started, removed,
                   buffer_stale>>

\* line 191
c_r191(t) ==
    /\ pc[t] = "r191"
    /\ uploaded_document' = [uploaded_document EXCEPT !.filename = None]
    /\ SetPc(t, "r194")
    /\ UNCHANGED <<conversation_buffer, latest_essay, seqvars, loc, started, removed,
                   buffer_stale>>

\* line 194, then the redirect: the removal is complete. Every exchange still in
\* flight began before it, and so did the history of a message list already built.
c_r194(t) ==
    /\ pc[t] = "r194"
    /\ conversation_buffer' = << >>
    /\ buffer_stale' = << >>
    /\ removed' = TRUE
    /\ loc' = [u \in Threads |->
                 IF u = t THEN IdleLocals
                 ELSE IF loc[u].route = "POST /"
                 THEN [loc[u] EXCEPT !.pre = TRUE,
                                     !.hist_stale =
                                         IF pc[u] = "l98" THEN HasHistory(loc[u]) ELSE @]
                 ELSE loc[u]]
    /\ SetPc(t, "idle")
    /\ UNCHANGED <<latest_essay, uploaded_document, seqvars, started>>

ConcNext ==
    \E t \in Threads :
        \/ \E topic \in Topics, file \in ConcFiles : c_begin_post(t, topic, file)
        \/ c_l166(t) \/ c_l167(t) \/ c_l170(t) \/ c_l171(t) \/ c_l89(t)
        \/ c_l98_send(t)
        \/ \E api \in ConcRaw \cup {ApiError} : c_l98_return(t, api)
        \/ c_l107(t) \/ c_l108(t) \/ c_l175(t)
        \/ c_begin_remove(t) \/ c_r190(t) \/ c_r191(t) \/ c_r194(t)

ConcSpec == Init /\ [][ConcNext]_vars

----------------------------------------------------------------------------
(* Properties *)

NonBlank(text) == \E i \in 1..Len(text) : ~IsSpace(text[i])

\* t is raw without its leading and trailing white space
IsTrimOf(t, raw) ==
    \E i \in 0..Len(raw) : \E j \in i..Len(raw) :
        /\ t = SubSeq(raw, i + 1, j)
        /\ \A k \in 1..i : IsSpace(raw[k])
        /\ \A k \in (j + 1)..Len(raw) : IsSpace(raw[k])
        /\ t = << >> \/ (~IsSpace(t[1]) /\ ~IsSpace(t[Len(t)]))

IsDocMessage(m) ==
    m.role = "user" /\ m.content # << >> /\ m.content[1] = "[DOCUMENT CONTENT]\n"

HasDocMessage(messages) == \E i \in 1..Len(messages) : IsDocMessage(messages[i])

Unsupported(file) ==
    /\ file.filename # << >>
    /\ ~EndsWith(Lower(file.filename), <<".", "p", "d", "f">>)
    /\ ~EndsWith(Lower(file.filename), <<".", "d", "o", "c", "x">>)

C2_CompletePairs ==
    \A i \in 1..Len(conversation_buffer) :
        conversation_buffer[i].role = IF i % 2 = 1 THEN "user" ELSE "assistant"

\* C3: remove-file sets content and filename to absent, empties the history and
\* leaves the latest essay alone; a download right after a remove-file that came
\* after a generation with non-empty output returns that essay as an attachment.
C3_RemoveThenDownload ==
    [][/\ request'.route = "POST /remove_file" =>
            /\ uploaded_document' = [content |-> None, filename |-> None]
            /\ conversation_buffer' = << >>
            /\ latest_essay' = latest_essay
       /\ ( /\ request.route = "POST /remove_file"
            /\ request'.route = "GET /download"
            /\ last_returned # None /\ NonBlank(last_returned) ) =>
            /\ response'.kind = "attachment"
            /\ response'.markdown_text = latest_essay
            /\ IsTrimOf(latest_essay, last_returned)]_vars

\* C4: download answers with the notice exactly when the latest essay is empty,
\* as it is while nothing has been generated, and with the essay.docx attachment
\* otherwise; it changes none of the three globals.
C4_DownloadNoticeOrFile ==
    [][request'.route = "GET /download" =>
            /\ response'.kind = "notice" <=> latest_essay = << >>
            /\ response'.kind = "notice" =>
                   response'.text = <<"No essay available. Generate one first.">>
            /\ latest_essay # << >> =>
                   response'.kind = "attachment" /\ response'.text = <<"essay.docx">>
            /\ last_returned = None => response'.kind = "notice"
            /\ UNCHANGED globals]_vars

\* What is left of C3 and C4 once a failing conversion is set aside: the effect
\* of remove_file, and the notice exactly on an empty essay.
RemoveFileFrame ==
    [][request'.route = "POST /remove_file" =>
            /\ uploaded_document' = [content |-> None, filename |-> None]
            /\ conversation_buffer' = << >>
            /\ latest_essay' = latest_essay]_vars

DownloadNoticeIffEmpty ==
    [][request'.route = "GET /download" =>
            /\ response'.kind = "notice" <=> latest_essay = << >>
            /\ last_returned = None => response'.kind = "notice"
            /\ response'.kind = "attachment" => response'.markdown_text = latest_essay
            /\ response'.kind = "error" =>
                   \E i \in 1..Len(latest_essay) : latest_essay[i] = "<table></table>"
            /\ UNCHANGED globals]_vars

\* C5 as stated: after a submission uploading a file of unsupported extension
\* the stored content is absent, the stored filename is absent too, and the
\* completion request carries no document message.
C5_UnsupportedLeavesNoFilename ==
    [][(request'.route = "POST /" /\ Unsupported(request'.file)) =>
            /\ uploaded_document'.content = None
            /\ uploaded_document'.filename = None
            /\ ~HasDocMessage(api_messages')]_vars

\* C5 as amended: after a submission uploading a file of unsupported extension
\* the stored content is absent, the stored filename is the uploaded file's
\* name, and the completion request carries no document message.
C5_UnsupportedKeepsFilename ==
    [][(request'.route = "POST /" /\ Unsupported(request'.file)) =>
            /\ uploaded_document'.content = None
            /\ uploaded_document'.filename = request'.file.filename
            /\ ~HasDocMessage(api_messages')
            /\ api_messages'[Len(api_messages')] = Msg("user", request'.topic)]_vars

C5_Witness ==
    /\ request.route = "POST /"
    /\ request.file = FileTxt
    /\ request.api \in RawEssays
    /\ uploaded_document.filename = <<"n", ".", "t", "x", "t">>
    /\ Len(api_messages) >= 3

\* C6: the messages of every completion call are the system message, the
\* history as it stood before the request, a document message exactly when the
\* stored content is non-empty, and a last user message: "Write an essay on:"
\* plus the topic with a document message, the bare topic without.
C6_MessageList ==
    [][(request'.route = "POST /" /\ request'.api # None) =>
            api_messages' =
                <<[role |-> "system", content |-> <<"You are an AI essay writer. ...">>]>>
                \o conversation_buffer
                \o (IF uploaded_document'.content \notin {None, << >>}
                    THEN <<[role |-> "user",
                            content |-> <<"[DOCUMENT CONTENT]\n">>
                                            \o uploaded_document'.content],
                           [role |-> "user",
                            content |-> <<"Write an essay on: ">> \o request'.topic]>>
                    ELSE <<[role |-> "user", content |-> request'.topic]>>)]_vars

C6_Witness ==
    /\ request.route = "POST /"
    /\ request.file = NoFile
    /\ request.api \in RawEssays
    /\ Len(api_messages) >= 5
    /\ IsDocMessage(api_messages[Len(api_messages) - 1])

\* C7: the latest essay is empty while no generation has succeeded and is
\* otherwise the trimmed text of the most recent successful completion; only a
\* POST / changes it.
C7_LatestEssay ==
    /\ [](IF last_returned = None THEN latest_essay = << >>
          ELSE IsTrimOf(latest_essay, last_returned))
    /\ [][latest_essay' # latest_essay => request'.route = "POST /"]_vars

C7_Witness ==
    /\ last_returned = <<" ", "a", "\n">>
    /\ latest_essay = <<"a">>
    /\ request.route = "POST /remove_file"

\* C8: two submissions may be in flight together, and the document a submission
\* generates from is whatever the global holds when line 171 reads it, not what
\* the submission itself uploaded.
C8_ArgumentIsGlobal ==
    [][\A t \in Threads :
          (pc[t] = "l171" /\ pc'[t] = "l89") =>
              loc'[t].arg = uploaded_document.content]_vars

\* t1 uploaded one document and generates from the other one, uploaded by t2,
\* and the two exchanges' user entries sit next to each other in the history
C8_Witness ==
    /\ pc["t1"] \in {"l108", "l175"}
    /\ pc["t2"] \in {"l108", "l175"}
    /\ loc["t1"].document_content = DocumentContent(FilePdf)
    /\ loc["t1"].arg = DocumentContent(FileDocx)
    /\ loc["t2"].file = FileDocx
    /\ \E i \in 1..(Len(conversation_buffer) - 1) :
           /\ conversation_buffer[i].role = "user"
           /\ conversation_buffer[i + 1].role = "user"

\* C9: a completion request sent after a remove-file completed, and before a new
\* supported upload, carries no document message and no history entry of an
\* exchange that began before the removal.
C9_NoContextAfterRemoval ==
    \A t \in Threads :
        (pc[t] = "l98w" /\ loc[t].sent_removed) =>
            /\ ~HasDocMessage(loc[t].messages)
            /\ ~loc[t].hist_stale

\* C10: when the completion call fails the request ends in an error, history
\* and latest essay are as before the request, and an upload made by the same
\* request stays stored.
C10_ApiFailure ==
    [][(request'.route = "POST /" /\ request'.api = ApiError) =>
            /\ response'.kind = "error"
            /\ conversation_buffer' = conversation_buffer
            /\ latest_essay' = latest_essay
            /\ request'.file.filename # << >> =>
                   /\ uploaded_document'.filename = request'.file.filename
                   /\ uploaded_document'.content = DocumentContent(request'.file)]_vars

C10_Witness ==
    /\ request.route = "POST /"
    /\ request.api = ApiError
    /\ request.file = FilePdf
    /\ response.kind = "error"
    /\ uploaded_document.content = <<"A", "\n\n", "o">>
    /\ Len(conversation_buffer) = 4
    /\ latest_essay = <<"a">>

====
